---- MODULE Spec2Model ----
(***************************************************************************)
(* conway-errors (src/index.ts): createError configures a context factory; *)
(* the factory builds a root context; subcontext / feature derive children;*)
(* a feature constructs error values and hands them to the emit function.  *)
(*                                                                         *)
(* JavaScript values are modelled as follows.                              *)
(*   - a string is a TLA+ string, a template literal is \o;                *)
(*   - a plain object is a function from its own keys to their values,     *)
(*     and { ...a, ...b } is Spread(a, b);                                 *)
(*   - a value that may be undefined is None or Some(v);                   *)
(*   - a closure is the record of the variables it captured;               *)
(*   - a call of a user-supplied function (createMessagePostfix, emitFn)   *)
(*     either returns or throws, and emitFn may write to the object it is  *)
(*     handed.                                                             *)
(***************************************************************************)
EXTENDS Integers, Sequences, FiniteSets, TLC

VARIABLES
    factory,    \* the closure createError returned
    roots,      \* the closures of the factory's invocations, in call order
    nodes,      \* the context objects (root contexts and subcontexts) alive
    features,   \* the feature objects alive
    last        \* the most recent operation: its arguments and what it did

vars == <<factory, roots, nodes, features, last>>

\* Context and feature objects the model keeps alive (the code has no limit).
MaxObjects == 3

(***************************************************************************)
(* JavaScript values                                                       *)
(***************************************************************************)
None == <<>>
Some(v) == <<v>>
OrElse(o, d) == IF o = None THEN d ELSE o[1]

EmptyObj == [k \in {} |-> 0]

\* obj[key] of an object whose values may be undefined: undefined when absent.
Get(obj, key) == IF key \in DOMAIN obj THEN obj[key] ELSE None

\* A left-biased spread: what { ...b, ...a } would give.
SpreadLeftBiased(a, b) ==
    [k \in DOMAIN a \cup DOMAIN b |-> IF k \in DOMAIN a THEN a[k] ELSE b[k]]

\* { ...a, ...b }
Spread(a, b) ==
    [k \in DOMAIN a \cup DOMAIN b |-> IF k \in DOMAIN b THEN b[k] ELSE a[k]]

(***************************************************************************)
(* Inputs.  Each argument takes each of its kinds of value (absent, given, *)
(* overriding, configured, unconfigured); arguments that the code never    *)
(* combines are varied together rather than as a product.                  *)
(***************************************************************************)
\* createErrorContext(name, extendedParams)
RootArgs ==
    { [name |-> "Auth", extendedParams |-> None],
      [name |-> "Pay", extendedParams |-> Some([level |-> 1, subdomain |-> 1])] }

\* node.subcontext(name, extendedParams)
SubcontextArgs ==
    { [name |-> "Auth", extendedParams |-> None],
      [name |-> "Social", extendedParams |-> Some([level |-> 2])] }

\* node.feature(name, extendedParams)
FeatureArgs ==
    { [name |-> "Facebook", extendedParams |-> None],
      [name |-> "Sms", extendedParams |-> Some([level |-> 3, location |-> 3])] }

ErrorTypeNames == {"Front", "Back", "Nope"}
Messages == {"Account inactive"}

\* originalError arguments: absent, an error carrying a message, a mapping
\* of other attributes.
OriginalErrorArgs == {None, Some([message |-> "disk full"]), Some([code |-> "E1"])}

\* extendedParams arguments of emit and emitCreated.
CallParamArgs == {None, Some([level |-> 4, logLevel |-> 4])}

\* options arguments of emit: omitted, with originalError, with extendedParams.
EmitOptionsArgs ==
    { None,
      Some([originalError |-> Some([message |-> "disk full"])]),
      Some([extendedParams |-> Some([level |-> 4, logLevel |-> 4])]) }

\* createMessagePostfix functions a configuration may supply:
\*   "arrow"    (originalError) => " >>> " + originalError?.message
\*   "throwing" a function that throws when called
ArrowTypes ==
    <<[errorType |-> "Front", createMessagePostfix |-> Some("arrow")],
      [errorType |-> "Back", createMessagePostfix |-> None]>>

ThrowingTypes ==
    <<[errorType |-> "Front", createMessagePostfix |-> Some("throwing")],
      [errorType |-> "Back", createMessagePostfix |-> None]>>

FactoryParams == [isSSR |-> 0, level |-> 0]

\* createError(errorTypes, options): errorTypes omitted or a list; options
\* omitted, without emitFn, with emitFn present and undefined, with a custom
\* emitFn.
CreateErrorArgs ==
    { [errorTypes |-> None, options |-> None],
      [errorTypes |-> Some(ArrowTypes), options |-> Some([emitFn |-> None])],
      [errorTypes |-> Some(ThrowingTypes),
       options |-> Some([extendedParams |-> Some(FactoryParams)])],
      [errorTypes |-> Some(ArrowTypes),
       options |-> Some([emitFn |-> Some("customEmitFn"),
                         extendedParams |-> Some(FactoryParams)])] }

\* What one invocation of emitFn does.  defaultEmitFn writes the error to
\* console.error and returns.  A custom emitFn writes to the params object
\* it received and then returns or throws.
EmitFnBehaviours(fn) ==
    IF fn = Some("customEmitFn") THEN {"return", "throw"} ELSE {"return"}

(***************************************************************************)
(* Error classes and messages                                              *)
(***************************************************************************)
ConwayError(name, rootContext, contextsChunk, message, originalError) ==
    [name |-> name, rootContext |-> rootContext, contextsChunk |-> contextsChunk,
     message |-> message, originalError |-> originalError]

\* The class createErrorClass returns: its constructor's captured variables.
createErrorClass(name, rootContext) == [name |-> name, rootContext |-> rootContext]

\* new errorClass(contextsChunk, message, originalError)
NewError(errorClass, contextsChunk, message, originalError) ==
    ConwayError(errorClass.name, errorClass.rootContext, contextsChunk, message,
                originalError)

createContextedMessageNoFeature(contextPath, featureName, message) ==
    contextPath \o ": " \o message

createContextedMessage(contextPath, featureName, message) ==
    contextPath \o "/" \o featureName \o ": " \o message

defaultErrorOptions == [emitFn |-> Some("defaultEmitFn"), extendedParams |-> Some(EmptyObj)]

(***************************************************************************)
(* createError                                                             *)
(***************************************************************************)
\* The factory closure: errorTypes and options as given, _options and
\* initialExtendedParams as computed.
createError(errorTypes, options) ==
    [errorTypes |-> errorTypes,
     options |-> options,
     _options |-> Spread(defaultErrorOptions, OrElse(options, EmptyObj)),
     initialExtendedParams |->
        OrElse(IF options = None THEN None ELSE Get(options[1], "extendedParams"),
               EmptyObj)]

\* errorTypes.reduce(...) over the first n descriptors.
RECURSIVE ReduceErrorTypes(_, _, _)
ReduceErrorTypes(list, n, contextName) ==
    IF n = 0 THEN EmptyObj
    ELSE LET acc == ReduceErrorTypes(list, n - 1, contextName)
             item == [errorClass |-> createErrorClass(list[n].errorType, contextName),
                      createMessagePostfix |-> list[n].createMessagePostfix]
         IN  [t \in DOMAIN acc \cup {list[n].errorType} |->
                 IF t = list[n].errorType THEN item ELSE acc[t]]

BuildErrorsMap(errorTypes, contextName) ==
    IF errorTypes = None THEN EmptyObj
    ELSE ReduceErrorTypes(errorTypes[1], Len(errorTypes[1]), contextName)

\* The closure of one factory invocation.
RootClosure(contextName, extendedParams) ==
    [contextName |-> contextName,
     outerExtendedParams |->
        Spread(factory.initialExtendedParams, OrElse(extendedParams, EmptyObj)),
     errorsMap |-> BuildErrorsMap(factory.errorTypes, contextName),
     UnknownError |-> createErrorClass("UnknownError", contextName)]

(***************************************************************************)
(* Context and feature objects.  path and supplied record the names and    *)
(* the extendedParams arguments given on the way down; the code does not   *)
(* keep them, the properties below are stated over them.                   *)
(***************************************************************************)
_createErrorContext(root, _contextName, contextExtendedParams, path, supplied) ==
    [root |-> root, contextName |-> _contextName, params |-> contextExtendedParams,
     path |-> path, supplied |-> supplied]

\* node.subcontext(childContextName, extendedParams)
_createSubcontext(node, childContextName, extendedParams) ==
    LET subErrorContext == Spread(node.params, OrElse(extendedParams, EmptyObj))
    IN  _createErrorContext(node.root, node.contextName \o "/" \o childContextName,
                            subErrorContext,
                            Append(node.path, childContextName),
                            Append(node.supplied, extendedParams))

\* The feature object: the variables its functions captured.
_createErrorFeature(node, featureName, featureContextExtendedParams, supplied) ==
    [root |-> node.root, featureName |-> featureName, contextName |-> node.contextName,
     params |-> featureContextExtendedParams, path |-> node.path,
     supplied |-> supplied]

\* node.feature(childFeatureName, extendedParams)
createFeature(node, childFeatureName, extendedParams) ==
    LET featureErrorContext == Spread(node.params, OrElse(extendedParams, EmptyObj))
    IN  _createErrorFeature(node, childFeatureName, featureErrorContext,
                            Append(node.supplied, extendedParams))

(***************************************************************************)
(* User-supplied functions                                                 *)
(***************************************************************************)
\* createMessagePostfix(originalError): the string returned, or a throw.
CallPostfix(fn, originalError) ==
    IF fn = "arrow"
    THEN [threw |-> FALSE, failure |-> "",
          value |-> " >>> " \o (IF "message" \in DOMAIN originalError
                                THEN originalError.message ELSE "undefined")]
    ELSE [threw |-> TRUE, failure |-> "PostfixFailure", value |-> ""]

\* emitFn(error, params): defaultEmitFn calls console.error(err); a custom
\* emitFn writes to the params object it received, then returns or throws as
\* `behaviour` says.  written is the params object after the call.
CallEmitFn(fn, error, params, behaviour) ==
    IF fn = "defaultEmitFn"
    THEN [threw |-> FALSE, failure |-> "", written |-> params]
    ELSE [threw |-> behaviour = "throw",
          failure |-> IF behaviour = "throw" THEN "EmitFnFailure" ELSE "",
          written |-> Spread(params, [level |-> 9, seen |-> 1])]

(***************************************************************************)
(* A feature's operations                                                  *)
(***************************************************************************)
ClosureOfLatestRoot(f) == roots[Len(roots)]

\* The factory invocation whose closure a feature was created in.
ClosureOf(f) == roots[f.root]

\* errorsMap[errorType]
LookupErrorMapItem(errorsMap, errorType) ==
    IF errorType \in DOMAIN errorsMap THEN Some(errorsMap[errorType]) ELSE None

MessagePostfixWithoutOriginal(errorMapItem, originalError) ==
    IF errorMapItem # None /\ errorMapItem[1].createMessagePostfix # None
    THEN CallPostfix(errorMapItem[1].createMessagePostfix[1],
                     OrElse(originalError, EmptyObj))
    ELSE [threw |-> FALSE, failure |-> "", value |-> ""]

\* originalError && errorMapItem?.createMessagePostfix
\*     ? errorMapItem.createMessagePostfix(originalError) : ""
MessagePostfix(errorMapItem, originalError) ==
    IF originalError # None /\ errorMapItem # None
       /\ errorMapItem[1].createMessagePostfix # None
    THEN CallPostfix(errorMapItem[1].createMessagePostfix[1], originalError[1])
    ELSE [threw |-> FALSE, failure |-> "", value |-> ""]

ErrorClassNoFallback(errorMapItem, UnknownError) ==
    IF errorMapItem # None THEN Some(errorMapItem[1].errorClass) ELSE None

ErrorClassFallbackPlainError(errorMapItem, UnknownError) ==
    IF errorMapItem # None THEN Some(errorMapItem[1].errorClass)
    ELSE Some([UnknownError EXCEPT !.name = "Error"])

\* errorMapItem?.errorClass ?? UnknownError
ErrorClass(errorMapItem, UnknownError) ==
    IF errorMapItem # None THEN Some(errorMapItem[1].errorClass)
    ELSE Some(UnknownError)

\* feature(errorType, message, originalError): the error returned, or the
\* failure thrown.  new applied to undefined is a TypeError.
createNewErrorObject(f, errorType, message, originalError) ==
    LET closure == ClosureOf(f)
        errorMapItem == LookupErrorMapItem(closure.errorsMap, errorType)
        messagePostfix == MessagePostfix(errorMapItem, originalError)
        errorClass == ErrorClass(errorMapItem, closure.UnknownError)
    IN  IF messagePostfix.threw
        THEN [threw |-> TRUE, failure |-> messagePostfix.failure, error |-> None]
        ELSE IF errorClass = None
        THEN [threw |-> TRUE, failure |-> "TypeError", error |-> None]
        ELSE [threw |-> FALSE, failure |-> "",
              error |-> Some(NewError(errorClass[1], f.contextName,
                                createContextedMessage(f.contextName, f.featureName,
                                    message \o messagePostfix.value),
                                originalError))]

\* The params object handed to emitFn.  ref says which object it is:
\* "fresh" for a newly allocated one, "feature" for the feature's own.
EmitParamsAliased(f, extendedParams) ==
    IF extendedParams = None
    THEN [ref |-> "feature", obj |-> f.params]
    ELSE [ref |-> "fresh", obj |-> Spread(f.params, extendedParams[1])]

EmitParamsIgnoringCall(f, extendedParams) ==
    [ref |-> "fresh", obj |-> Spread(f.params, EmptyObj)]

\* { ...featureContextExtendedParams, ...extendedParams }
EmitParams(f, extendedParams) ==
    [ref |-> "fresh", obj |-> Spread(f.params, OrElse(extendedParams, EmptyObj))]

DispatchSwallowing(f, error, extendedParams, behaviour) ==
    LET emitFn == Get(factory._options, "emitFn")
        handed == EmitParams(f, extendedParams)
    IN  IF emitFn = None
        THEN [threw |-> FALSE, failure |-> "", dispatched |-> <<>>,
              ref |-> handed.ref, written |-> handed.obj]
        ELSE [threw |-> FALSE, failure |-> "",
              dispatched |-> <<[fn |-> emitFn[1], error |-> error, params |-> handed.obj]>>,
              ref |-> handed.ref,
              written |-> CallEmitFn(emitFn[1], error, handed.obj, behaviour).written]

\* _options.emitFn?.(error, _extendedParams): the calls made of emitFn, the
\* failure that escapes, and the handed object after the call.
Dispatch(f, error, extendedParams, behaviour) ==
    LET emitFn == Get(factory._options, "emitFn")
        handed == EmitParams(f, extendedParams)
    IN  IF emitFn = None
        THEN [threw |-> FALSE, failure |-> "", dispatched |-> <<>>,
              ref |-> handed.ref, written |-> handed.obj]
        ELSE LET r == CallEmitFn(emitFn[1], error, handed.obj, behaviour)
             IN  [threw |-> r.threw, failure |-> r.failure,
                  dispatched |-> <<[fn |-> emitFn[1], error |-> error,
                                    params |-> handed.obj]>>,
                  ref |-> handed.ref, written |-> r.written]

\* feature.emit(errorType, message, options)
emit(f, errorType, message, options, behaviour) ==
    LET opts == OrElse(options, EmptyObj)
        errorObject == createNewErrorObject(f, errorType, message,
                                            Get(opts, "originalError"))
    IN  IF errorObject.threw
        THEN [threw |-> TRUE, failure |-> errorObject.failure, dispatched |-> <<>>,
              ref |-> "fresh", written |-> EmptyObj]
        ELSE Dispatch(f, errorObject.error[1], Get(opts, "extendedParams"), behaviour)

\* feature.emitCreated(error, extendedParams)
emitCreated(f, error, extendedParams, behaviour) ==
    Dispatch(f, error, extendedParams, behaviour)

\* The feature objects after emitFn wrote to the object it was handed.
AfterWrite(f, r) ==
    IF r.ref = "feature" /\ r.written # f.params
    THEN (features \ {f}) \cup {[f EXCEPT !.params = r.written]}
    ELSE features

(***************************************************************************)
(* The state machine                                                       *)
(***************************************************************************)
Idle(op) ==
    [op |-> op, feature |-> None, errorType |-> "", message |-> "",
     originalError |-> None, extendedParams |-> None, given |-> None,
     behaviour |-> "", threw |-> FALSE, failure |-> "", error |-> None,
     dispatched |-> <<>>]

Objects == Cardinality(nodes) + Cardinality(features)

Init ==
    /\ \E args \in CreateErrorArgs :
          factory = createError(args.errorTypes, args.options)
    /\ roots = <<>>
    /\ nodes = {}
    /\ features = {}
    /\ last = Idle("createError")

\* createErrorContext(contextName, extendedParams)
CreateContext ==
    \E args \in RootArgs :
        LET closure == RootClosure(args.name, args.extendedParams)
        IN  /\ Objects < MaxObjects
            /\ roots' = Append(roots, closure)
            /\ nodes' = nodes \cup
                  {_createErrorContext(Len(roots) + 1, args.name,
                                       closure.outerExtendedParams, <<args.name>>,
                                       <<IF factory.options = None THEN None
                                         ELSE Get(factory.options[1], "extendedParams"),
                                         args.extendedParams>>)}
            /\ last' = Idle("context")
            /\ UNCHANGED <<factory, features>>

Subcontext ==
    \E node \in nodes, args \in SubcontextArgs :
        /\ Objects < MaxObjects
        /\ nodes' = nodes \cup {_createSubcontext(node, args.name, args.extendedParams)}
        /\ last' = Idle("subcontext")
        /\ UNCHANGED <<factory, roots, features>>

Feature ==
    \E node \in nodes, args \in FeatureArgs :
        /\ Objects < MaxObjects
        /\ features' = features \cup {createFeature(node, args.name, args.extendedParams)}
        /\ last' = Idle("feature")
        /\ UNCHANGED <<factory, roots, nodes>>

Construct ==
    \E f \in features, errorType \in ErrorTypeNames, message \in Messages,
       originalError \in OriginalErrorArgs :
        LET r == createNewErrorObject(f, errorType, message, originalError)
        IN  /\ last' = [Idle("construct") EXCEPT
                          !.feature = Some(f), !.errorType = errorType,
                          !.message = message, !.originalError = originalError,
                          !.threw = r.threw, !.failure = r.failure, !.error = r.error]
            /\ UNCHANGED <<factory, roots, nodes, features>>

Emit ==
    \E f \in features, errorType \in ErrorTypeNames, message \in Messages,
       options \in EmitOptionsArgs,
       behaviour \in EmitFnBehaviours(Get(factory._options, "emitFn")) :
        LET r == emit(f, errorType, message, options, behaviour)
            opts == OrElse(options, EmptyObj)
        IN  /\ last' = [Idle("emit") EXCEPT
                          !.feature = Some(f), !.errorType = errorType,
                          !.message = message,
                          !.originalError = Get(opts, "originalError"),
                          !.extendedParams = Get(opts, "extendedParams"),
                          !.behaviour = behaviour,
                          !.threw = r.threw, !.failure = r.failure,
                          !.dispatched = r.dispatched]
            /\ features' = AfterWrite(f, r)
            /\ UNCHANGED <<factory, roots, nodes>>

\* emitCreated, on any feature, of the error the preceding construct call
\* returned.
EmitCreated ==
    \E f \in features, extendedParams \in CallParamArgs,
       behaviour \in EmitFnBehaviours(Get(factory._options, "emitFn")) :
        /\ last.op = "construct"
        /\ last.error # None
        /\ LET r == emitCreated(f, last.error[1], extendedParams, behaviour)
           IN  /\ last' = [Idle("emitCreated") EXCEPT
                             !.feature = Some(f), !.given = last.error,
                             !.extendedParams = extendedParams,
                             !.behaviour = behaviour,
                             !.threw = r.threw, !.failure = r.failure,
                             !.dispatched = r.dispatched]
               /\ features' = AfterWrite(f, r)
        /\ UNCHANGED <<factory, roots, nodes>>

Next ==
    \/ CreateContext
    \/ Subcontext
    \/ Feature
    \/ Construct
    \/ Emit
    \/ EmitCreated

Spec == Init /\ [][Next]_vars

(***************************************************************************)
(* What the properties are stated over: the arguments as they were given.  *)
(***************************************************************************)
\* The kind names of the configured list.
ConfiguredKinds ==
    IF factory.errorTypes = None THEN {}
    ELSE {factory.errorTypes[1][i].errorType : i \in DOMAIN factory.errorTypes[1]}

\* The postfix function of the descriptor a kind name resolves to.
ResolvedPostfix(kind) ==
    IF kind \notin ConfiguredKinds THEN None
    ELSE LET list == factory.errorTypes[1]
             at == {i \in DOMAIN list : list[i].errorType = kind}
             i == CHOOSE j \in at : \A h \in at : h <= j
         IN  list[i].createMessagePostfix

\* The names of a path joined by "/".
RECURSIVE JoinPath(_)
JoinPath(path) ==
    IF Len(path) = 1 THEN path[1]
    ELSE JoinPath(SubSeq(path, 1, Len(path) - 1)) \o "/" \o path[Len(path)]

\* "<contextPath>/<featureName>: <msg>"
PlainMessage(f, message) ==
    JoinPath(f.path) \o "/" \o f.featureName \o ": " \o message

\* Whether the postfix function is to be applied.
PostfixApplies(kind, originalError) ==
    originalError # None /\ ResolvedPostfix(kind) # None

\* The error a construct call is to return.
ExpectedError(f, kind, message, originalError) ==
    [name |-> IF kind \in ConfiguredKinds THEN kind ELSE "UnknownError",
     rootContext |-> f.path[1],
     contextsChunk |-> JoinPath(f.path),
     message |->
        IF PostfixApplies(kind, originalError)
        THEN PlainMessage(f, message)
             \o CallPostfix(ResolvedPostfix(kind)[1], originalError[1]).value
        ELSE PlainMessage(f, message),
     originalError |-> originalError]

\* The merge of a chain of extendedParams arguments: each key with the value
\* of the deepest level that supplies it.
ExpectedChain(supplied) ==
    LET obj(i) == OrElse(supplied[i], EmptyObj)
        keys == UNION {DOMAIN obj(i) : i \in DOMAIN supplied}
        deepest(k) == CHOOSE i \in DOMAIN supplied :
                         /\ k \in DOMAIN obj(i)
                         /\ \A j \in DOMAIN supplied : k \in DOMAIN obj(j) => j <= i
    IN  [k \in keys |-> obj(deepest(k))[k]]

\* The emit function the configuration asks for.
ExpectedEmitFn ==
    IF factory.options # None /\ Get(factory.options[1], "emitFn") # None
    THEN Get(factory.options[1], "emitFn")[1]
    ELSE "defaultEmitFn"

Returned == last.op = "construct" /\ ~last.threw /\ last.error # None
Dispatched == last.op \in {"emit", "emitCreated"} /\ last.dispatched # <<>>

(***************************************************************************)
(* Properties                                                              *)
(***************************************************************************)
\* C1: construct(kind, msg) with a configured kind and no original error
\* returns an error named kind whose message is exactly
\* "<contextPath>/<featureName>: <msg>".
C1_ConfiguredKindMessage ==
    (last.op = "construct" /\ last.errorType \in ConfiguredKinds
        /\ last.originalError = None)
    => /\ Returned
       /\ last.error[1].name = last.errorType
       /\ last.error[1].message = PlainMessage(last.feature[1], last.message)

C1_Witness ==
    /\ Returned
    /\ last.errorType = "Front"
    /\ last.originalError = None
    /\ last.error[1].name = "Front"
    /\ last.error[1].message = "Auth/Social/Facebook: Account inactive"
    /\ last.error[1].rootContext = "Auth"
    /\ last.error[1].contextsChunk = "Auth/Social"

\* C2: construct with a kind that is not configured (or with no kind list at
\* all) does not fail and returns an error named "UnknownError" whose message,
\* rootContext, contextsChunk and originalError are those of a configured kind
\* without a postfix function.
C2_UnknownKind ==
    (last.op = "construct" /\ last.errorType \notin ConfiguredKinds)
    => /\ Returned
       /\ last.error[1] =
            [name |-> "UnknownError",
             rootContext |-> last.feature[1].path[1],
             contextsChunk |-> JoinPath(last.feature[1].path),
             message |-> PlainMessage(last.feature[1], last.message),
             originalError |-> last.originalError]
       /\ "Back" \in ConfiguredKinds =>
            last.error[1] =
               [createNewErrorObject(last.feature[1], "Back", last.message,
                                     last.originalError).error[1]
                   EXCEPT !.name = "UnknownError"]

C2_Witness ==
    /\ Returned
    /\ last.errorType = "Nope"
    /\ "Front" \in ConfiguredKinds
    /\ last.originalError # None
    /\ last.error[1].name = "UnknownError"

\* C3: in a construct call that returns, the postfix function's result is
\* appended to the message exactly when an original error is supplied and the
\* resolved descriptor defines a postfix function; otherwise the message is
\* that of the same call without an original error.
C3_PostfixIff ==
    Returned =>
        LET f == last.feature[1]
            plain == createNewErrorObject(f, last.errorType, last.message, None)
        IN  IF PostfixApplies(last.errorType, last.originalError)
            THEN last.error[1].message =
                    PlainMessage(f, last.message)
                    \o CallPostfix(ResolvedPostfix(last.errorType)[1],
                                   last.originalError[1]).value
            ELSE /\ last.error[1].message = PlainMessage(f, last.message)
                 /\ ~plain.threw
                 /\ last.error[1].message = plain.error[1].message

C3_Witness ==
    /\ Returned
    /\ last.errorType = "Front"
    /\ last.originalError = Some([message |-> "disk full"])
    /\ last.error[1].message = "Auth/Social/Facebook: Account inactive >>> disk full"

\* C4: the params an emit call hands to emitFn are the right-biased merge of
\* the whole chain: factory params, root params, each subcontext's params in
\* descent order, feature params, call-time extendedParams.
C4_ParamsChain ==
    (last.op = "emit" /\ last.dispatched # <<>>)
    => last.dispatched[1].params =
          ExpectedChain(Append(last.feature[1].supplied, last.extendedParams))

C4_Witness ==
    /\ last.op = "emit"
    /\ last.dispatched # <<>>
    /\ Len(last.feature[1].path) = 2
    /\ \A i \in DOMAIN last.feature[1].supplied : last.feature[1].supplied[i] # None
    /\ last.extendedParams # None
    /\ last.dispatched[1].params =
          [isSSR |-> 0, subdomain |-> 1, location |-> 3, level |-> 4, logLevel |-> 4]

\* C5: every emit and every emitCreated call invokes the emit function exactly
\* once, no other operation invokes it, and the function invoked is the
\* configured one, or the default when the configuration supplies none.
C5_DispatchOncePerEmit ==
    IF last.op \in {"emit", "emitCreated"}
    THEN /\ Len(last.dispatched) = 1
         /\ last.dispatched[1].fn = ExpectedEmitFn
    ELSE last.dispatched = <<>>

\* C6: every error a feature constructs or emits has the root name of its own
\* root context as rootContext and its context path as contextsChunk,
\* whichever other root contexts exist.
C6_RootAndChunk ==
    /\ Returned =>
          /\ last.error[1].rootContext = last.feature[1].path[1]
          /\ last.error[1].contextsChunk = JoinPath(last.feature[1].path)
    /\ (last.op = "emit" /\ last.dispatched # <<>>) =>
          /\ last.dispatched[1].error.rootContext = last.feature[1].path[1]
          /\ last.dispatched[1].error.contextsChunk = JoinPath(last.feature[1].path)

C6_Witness ==
    /\ Returned
    /\ Len(roots) = 2
    /\ roots[1].contextName # roots[2].contextName
    /\ last.feature[1].root = 1
    /\ last.error[1].rootContext = roots[1].contextName

\* C7: emit hands emitFn the error construct returns for the same arguments
\* and merge(feature params, extendedParams); emitCreated hands it the error
\* it was given, unchanged, and merge(emitting feature's params,
\* extendedParams).
C7_DispatchedPair ==
    Dispatched =>
        LET f == last.feature[1]
            d == last.dispatched[1]
        IN  /\ d.params = ExpectedChain(<<Some(f.params), last.extendedParams>>)
            /\ last.op = "emit" =>
                  d.error = ExpectedError(f, last.errorType, last.message,
                                          last.originalError)
            /\ last.op = "emitCreated" => d.error = last.given[1]

C7_Witness ==
    /\ Dispatched
    /\ last.op = "emitCreated"
    /\ last.extendedParams # None
    /\ \E g \in features :
          /\ g.featureName # last.feature[1].featureName
          /\ g.params # last.feature[1].params
          /\ last.given[1].message = PlainMessage(g, "Account inactive")

\* C8 as stated: a construct call always returns an error value.
C8_ConstructNeverFails == last.op = "construct" => Returned

\* C8 as amended: a construct call fails only when the postfix function it
\* calls throws, and then with that function's failure; otherwise it returns
\* an error value.
C8_FailsOnlyByPostfix ==
    last.op = "construct" =>
        IF PostfixApplies(last.errorType, last.originalError)
           /\ CallPostfix(ResolvedPostfix(last.errorType)[1],
                          last.originalError[1]).threw
        THEN last.threw /\ last.failure = "PostfixFailure" /\ last.error = None
        ELSE Returned

C8_Witness ==
    /\ Returned
    /\ last.errorType = "Nope"
    /\ ResolvedPostfix("Front") = Some("throwing")
    /\ last.originalError # None

\* C9: a failure of emitFn reaches the caller of emit / emitCreated as it is,
\* emitFn having been called once, and leaves every object unchanged; an emit
\* that follows with the same arguments hands over the same error and params.
C9_EmitFnFailure ==
    [][/\ (last'.op \in {"emit", "emitCreated"} /\ last'.dispatched # <<>>
              /\ last'.behaviour = "throw")
          => /\ last'.threw
             /\ last'.failure = "EmitFnFailure"
             /\ Len(last'.dispatched) = 1
             /\ <<factory, roots, nodes, features>>' = <<factory, roots, nodes, features>>
       /\ (last.op = "emit" /\ last.dispatched # <<>> /\ last.behaviour = "throw"
              /\ last'.op = "emit" /\ last'.feature = last.feature
              /\ last'.errorType = last.errorType /\ last'.message = last.message
              /\ last'.originalError = last.originalError
              /\ last'.extendedParams = last.extendedParams)
          => /\ Len(last'.dispatched) = 1
             /\ last'.dispatched[1].error = last.dispatched[1].error
             /\ last'.dispatched[1].params = last.dispatched[1].params
             /\ last'.dispatched[1].params =
                   ExpectedChain(Append(last'.feature[1].supplied,
                                        last'.extendedParams))]_vars

C9_Witness ==
    /\ last.op = "emit"
    /\ last.behaviour = "throw"
    /\ Len(last.dispatched) = 1
    /\ last.dispatched[1].fn = "customEmitFn"
    /\ last.threw
    /\ last.failure = "EmitFnFailure"

\* C10: no operation alters an existing context or feature object: its path
\* and its params stay those fixed at its creation, whatever is derived from
\* it, emitted through it, or written by emitFn to the params it receives.
C10_ObjectsFrozen ==
    /\ [](/\ \A n \in nodes :
                /\ n.params = ExpectedChain(n.supplied)
                /\ n.contextName = JoinPath(n.path)
          /\ \A f \in features :
                /\ f.params = ExpectedChain(f.supplied)
                /\ f.contextName = JoinPath(f.path)
          /\ (Dispatched /\ last.extendedParams = None)
                => last.dispatched[1].params = ExpectedChain(last.feature[1].supplied))
    /\ [][/\ nodes \subseteq nodes'
          /\ features \subseteq features'
          /\ \A i \in DOMAIN roots : i \in DOMAIN roots' /\ roots'[i] = roots[i]]_vars

C10_Witness ==
    /\ last.op = "emit"
    /\ last.dispatched # <<>>
    /\ last.dispatched[1].fn = "customEmitFn"
    /\ last.behaviour = "return"
    /\ last.extendedParams = None
    /\ \E n \in nodes : Len(n.path) = 2
    /\ \E n \in nodes : Len(n.path) = 1 /\ n.params # last.feature[1].params

====
